---------------------------- MODULE Spec2Model ----------------------------
(***************************************************************************)
(* A model of trivial-jit: the operator-precedence parser (parser.py), the *)
(* lowering pass, the code generator and exponentiation by squaring        *)
(* (trivial_jit.py), the array reduction loop (array_jit.py) and the       *)
(* pretty-printer and reference interpreter of the tests (test_jit.py).    *)
(*                                                                         *)
(* Representation.  A Python str is a sequence of characters, each a       *)
(* one-character TLA+ string ("0.5" is <<"0", ".", "5">>); the character   *)
(* U+221A (square root) is written "sqrt".  An AST is a record: a leaf     *)
(* (a Python str) has op = "" and its text in v; a tuple (op, *args) has   *)
(* the operator's symbol in op and its children in args.  A double is an   *)
(* exact rational [n, d] with d > 0; d = 0 stands for the non-finite       *)
(* doubles (NaN, infinities).                                              *)
(***************************************************************************)
EXTENDS Integers, Sequences, FiniteSets, TLC

VARIABLES
    ast,        \* test_parse_roundtrips: the generated tree (NoAst: none)
    as_str,     \* the expression string handed to to_ast
    parsed,     \* what to_ast returned or raised
    pphase,     \* "start" | "text" | "parsed" ("idle": no parser test)
    mode,       \* the compile path: "scalar" | "reducer" | "pow"
    in_expr,    \* the AST handed to jit_evaluator or array_reducer
    lowered,    \* what simplify_expr(expr) returned or raised
    fn,         \* the compiled function
    status,     \* "source" | "rejected" | "loaded" | "running" | "returned" | "fault"
    cargs,      \* the arguments of the call
    buf,        \* the caller's buffer of doubles
    pc,         \* the index in fn.code of the next instruction
    xmm,        \* the floating-point registers
    gpr,        \* the general-purpose registers
    flags,      \* CF, ZF, SF, OF
    result,     \* the double the call returned
    wlog,       \* every write so far: the instruction and its destination
    reads       \* the addresses read from memory so far, in order

parse_vars == <<ast, as_str, parsed, pphase>>
cpu_vars == <<status, buf, pc, xmm, gpr, flags, result, wlog, reads>>
jit_vars == <<mode, in_expr, lowered, fn, cargs>>
vars == <<parse_vars, jit_vars, cpu_vars>>

(***************************************************************************)
(* Bounds of the model.                                                    *)
(***************************************************************************)
MaxNodes == 3       \* operator nodes in a generated tree
MaxTextLen == 5     \* characters in a generated expression string
MaxExprNodes == 2   \* operator nodes in an expression handed to the JIT
MaxBuf == 2         \* elements in the caller's buffer
MaxExp == 7         \* the largest exponent handed to _POWSD directly
WordBits == 4       \* bits of a general-purpose register (64 in the code)
MaxNegCount == 2    \* the most negative count handed to a reduction is -MaxNegCount

(***************************************************************************)
(* Characters and small helpers.                                           *)
(***************************************************************************)
DigitChars == {"0", "1", "2", "3", "4", "5", "6", "7", "8", "9"}

DigitVal(c) ==
    CASE c = "0" -> 0 [] c = "1" -> 1 [] c = "2" -> 2 [] c = "3" -> 3
      [] c = "4" -> 4 [] c = "5" -> 5 [] c = "6" -> 6 [] c = "7" -> 7
      [] c = "8" -> 8 [] c = "9" -> 9

DigitChar(k) == CHOOSE c \in DigitChars : DigitVal(c) = k

Min(a, b) == IF a < b THEN a ELSE b
Max(a, b) == IF a > b THEN a ELSE b
Abs(a) == IF a < 0 THEN -a ELSE a

RECURSIVE Pow10(_)
Pow10(k) == IF k <= 0 THEN 1 ELSE 10 * Pow10(k - 1)

\* str(n) for a non-negative Python int.
RECURSIVE NatStr(_)
NatStr(n) == IF n < 10 THEN <<DigitChar(n)>>
             ELSE Append(NatStr(n \div 10), DigitChar(n % 10))

\* int(s) for a string of digits; the empty string counts 0.
RECURSIVE StrNat(_)
StrNat(s) == IF s = <<>> THEN 0
             ELSE 10 * StrNat(SubSeq(s, 1, Len(s) - 1)) + DigitVal(s[Len(s)])

AllDigits(s) == \A i \in 1..Len(s) : s[i] \in DigitChars

RECURSIVE Zeros(_)
Zeros(k) == IF k <= 0 THEN <<>> ELSE <<"0">> \o Zeros(k - 1)

\* s.strip() for the blank.
RECURSIVE Strip(_)
Strip(s) ==
    IF s # <<>> /\ s[1] = " " THEN Strip(Tail(s))
    ELSE IF s # <<>> /\ s[Len(s)] = " " THEN Strip(SubSeq(s, 1, Len(s) - 1))
    ELSE s

FirstIndex(s, cs) ==
    IF \E i \in 1..Len(s) : s[i] \in cs
    THEN CHOOSE i \in 1..Len(s) : s[i] \in cs /\ \A j \in 1..(i - 1) : s[j] \notin cs
    ELSE 0

(***************************************************************************)
(* float(s) and repr: a decimal literal denotes m * 10^e, kept normalised  *)
(* (m not divisible by 10, or m = 0 and e = 0).                            *)
(***************************************************************************)
RECURSIVE DecNorm(_, _)
DecNorm(m, e) ==
    IF m = 0 THEN [ok |-> TRUE, m |-> 0, e |-> 0]
    ELSE IF m % 10 = 0 THEN DecNorm(m \div 10, e + 1)
    ELSE [ok |-> TRUE, m |-> m, e |-> e]

ValueError == [ok |-> FALSE, m |-> 0, e |-> 0]

\* float(s): [sign] digits [. digits] [(e|E) [sign] digits], blanks around it
\* ignored; anything else raises ValueError.
float(str) ==
    LET s0 == Strip(str)
        minus == s0 # <<>> /\ s0[1] = "-"
        s1 == IF s0 # <<>> /\ s0[1] \in {"+", "-"} THEN Tail(s0) ELSE s0
        ei == FirstIndex(s1, {"e", "E"})
        mant == IF ei = 0 THEN s1 ELSE SubSeq(s1, 1, ei - 1)
        ex0 == IF ei = 0 THEN <<>> ELSE SubSeq(s1, ei + 1, Len(s1))
        exneg == ex0 # <<>> /\ ex0[1] = "-"
        ex1 == IF ex0 # <<>> /\ ex0[1] \in {"+", "-"} THEN Tail(ex0) ELSE ex0
        di == FirstIndex(mant, {"."})
        ip == IF di = 0 THEN mant ELSE SubSeq(mant, 1, di - 1)
        fp == IF di = 0 THEN <<>> ELSE SubSeq(mant, di + 1, Len(mant))
        wellformed == /\ AllDigits(ip) /\ AllDigits(fp)
                      /\ Len(ip) + Len(fp) > 0
                      /\ (ei # 0 => (ex1 # <<>> /\ AllDigits(ex1)))
        m == StrNat(ip \o fp)
        ex == IF exneg THEN -StrNat(ex1) ELSE StrNat(ex1)
    IN IF ~wellformed THEN ValueError
       ELSE DecNorm(IF minus THEN -m ELSE m, ex - Len(fp))

\* repr(x) of a float, for a decimal of at most 15 significant digits: the
\* digits, in fixed notation when the decimal exponent of the leading digit
\* is in -4..15 and in scientific notation otherwise.
float_repr(x) ==
    LET ds == NatStr(Abs(x.m))
        k == Len(ds)
        lead == k - 1 + x.e
        sign == IF x.m < 0 THEN <<"-">> ELSE <<>>
        ea == Abs(lead)
        estr == IF ea < 10 THEN <<"0">> \o NatStr(ea) ELSE NatStr(ea)
    IN IF x.e >= 0 THEN sign \o ds \o Zeros(x.e) \o <<".", "0">>
       ELSE IF lead >= 0 THEN
           sign \o SubSeq(ds, 1, lead + 1) \o <<".">> \o SubSeq(ds, lead + 2, k)
       ELSE IF lead >= -4 THEN
           sign \o <<"0", ".">> \o Zeros(-lead - 1) \o ds
       ELSE sign \o <<ds[1]>>
                 \o (IF k > 1 THEN <<".">> \o SubSeq(ds, 2, k) ELSE <<>>)
                 \o <<"e", "-">> \o estr

\* repr(n) of the int m * 10^e, e >= 0.
int_repr(x) ==
    (IF x.m < 0 THEN <<"-">> ELSE <<>>) \o NatStr(Abs(x.m))
        \o (IF x.m = 0 THEN <<>> ELSE Zeros(x.e))

canonicalize_num(num) ==
    IF num.e >= 0 THEN int_repr(num) ELSE float_repr(num)

(***************************************************************************)
(* The lexer: re.split on the operator pattern, numbers canonicalised.     *)
(***************************************************************************)
eof == <<"eof">>

TwoCharOps == {<<">", "=">>, <<"=", "<">>, <<"<", "=">>, <<"=", ">">>}
OneCharOps == {"(", ")", "{", "}", "*", "/", "^", "<", ">", "=", "[", "]"}

RECURSIVE SkipWs(_, _)
SkipWs(s, i) == IF i <= Len(s) /\ s[i] = " " THEN SkipWs(s, i + 1) ELSE i

\* The pattern without its lookbehind (?<![0-9.][eE]): a sign splits
\* wherever it stands, the exponent of 1.5e-05 included.
OpAt_without_lookbehind(s, j) ==
    IF j > Len(s) THEN 0
    ELSE IF j < Len(s) /\ <<s[j], s[j + 1]>> \in TwoCharOps THEN 2
    ELSE IF s[j] \in OneCharOps \cup {"+", "-"} THEN 1
    ELSE 0

\* The length of the operator the pattern's group matches at j, 0 for none.
OpAt(s, j) ==
    IF j > Len(s) THEN 0
    ELSE IF j < Len(s) /\ <<s[j], s[j + 1]>> \in TwoCharOps THEN 2
    ELSE IF s[j] \in OneCharOps THEN 1
    ELSE IF /\ s[j] \in {"+", "-"}
            /\ ~(j >= 3 /\ s[j - 2] \in DigitChars \cup {"."}
                        /\ s[j - 1] \in {"e", "E"})
         THEN 1
    ELSE 0

RECURSIVE ops_rex_split(_, _, _, _)
ops_rex_split(s, i, piece, out) ==
    IF i > Len(s) THEN Append(out, piece)
    ELSE LET j == SkipWs(s, i)
             n == OpAt(s, j)
         IN IF n > 0
            THEN ops_rex_split(s, SkipWs(s, j + n), <<>>,
                               out \o <<piece, SubSeq(s, j, j + n - 1)>>)
            ELSE ops_rex_split(s, i + 1, Append(piece, s[i]), out)

lex_tok(tok) ==
    LET f == float(tok) IN IF f.ok THEN canonicalize_num(f) ELSE tok

lex(s) ==
    LET raw == ops_rex_split(s, 1, <<>>, <<>>)
        toks == SelectSeq(raw, LAMBDA t : t # <<>>)
    IN Append([i \in 1..Len(toks) |-> lex_tok(toks[i])], eof)

(***************************************************************************)
(* The operator table.                                                     *)
(***************************************************************************)
OP_GROUPS == <<
    << <<"add", "+", "l">>, <<"sub", "~", "l">> >>,
    << <<"truediv", "/", "l">>, <<"mul", "*", "l">> >>,
    << <<"neg", "-", "u">> >>,
    << <<"pow", "^", "r">> >>,
    << <<"sqrt", "sqrt", "u">> >> >>

OpSymbols ==
    UNION {{OP_GROUPS[p][i][2] : i \in DOMAIN OP_GROUPS[p]} : p \in DOMAIN OP_GROUPS}

OPS ==
    [o \in OpSymbols |->
        LET p == CHOOSE p \in DOMAIN OP_GROUPS :
                     \E i \in DOMAIN OP_GROUPS[p] : OP_GROUPS[p][i][2] = o
            g == CHOOSE i \in DOMAIN OP_GROUPS[p] : OP_GROUPS[p][i][2] = o
        IN [op |-> o, prec |-> p - 1, assoc |-> OP_GROUPS[p][g][3],
            fun |-> OP_GROUPS[p][g][1]]]

\* left_first by precedence alone: equal precedence always groups to the left.
left_first_by_prec(self, other) == self.prec >= other.prec

left_first(self, other) ==
    self.prec > other.prec \/ (self.prec = other.prec /\ other.assoc = "l")

arity(self) == IF self.assoc = "u" THEN 1 ELSE 2

(***************************************************************************)
(* ASTs.                                                                   *)
(***************************************************************************)
Leaf(s) == [op |-> "", v |-> s, args |-> <<>>]
Tuple(o, args) == [op |-> o, v |-> <<>>, args |-> args]
IsTuple(t) == t.op # ""
NoAst == Leaf(<<>>)

\* stack[-n:] = [(self,) + tuple(stack[-n:])]: a slice of a list shorter than
\* n is the whole list.
apply(self, stack) ==
    LET n == arity(self)
        k == Len(stack)
        lo == Max(k - n, 0)
    IN Append(SubSeq(stack, 1, lo), Tuple(self.op, SubSeq(stack, lo + 1, k)))

(***************************************************************************)
(* parse_expr: the shunting-yard loop over the token iterator `flat`, here *)
(* the token list and the position of the next token.  The result is       *)
(* [ok, ans, pos, err]: the tree and the position after the terminator, or *)
(* the exception raised.                                                   *)
(***************************************************************************)
Raised(e) == [ok |-> FALSE, ans |-> NoAst, pos |-> 0, err |-> e]
Returned(a, p) == [ok |-> TRUE, ans |-> a, pos |-> p, err |-> ""]

\* while ops: ops.pop().apply(exprs)
RECURSIVE apply_all(_, _)
apply_all(ops, exprs) ==
    IF ops = <<>> THEN exprs
    ELSE apply_all(SubSeq(ops, 1, Len(ops) - 1), apply(OPS[ops[Len(ops)]], exprs))

\* while ops and ops[-1].left_first(o): ops.pop().apply(exprs)
RECURSIVE apply_while(_, _, _)
apply_while(ops, exprs, o) ==
    IF ops # <<>> /\ left_first(OPS[ops[Len(ops)]], o)
    THEN apply_while(SubSeq(ops, 1, Len(ops) - 1),
                     apply(OPS[ops[Len(ops)]], exprs), o)
    ELSE <<ops, exprs>>

IsOpToken(x) == Len(x) = 1 /\ x[1] \in OpSymbols

RECURSIVE parse_loop(_, _, _, _, _, _)
parse_loop(flat, pos, exprs, ops, last_was_op, waitfor) ==
    IF pos > Len(flat) THEN Raised("StopIteration")
    ELSE LET x == flat[pos] IN
    IF x = waitfor THEN
        LET done == apply_all(ops, exprs)
        IN IF Len(done) = 1 THEN Returned(done[1], pos + 1)
           ELSE Raised("ValueError")
    ELSE IF x = eof THEN Raised("TypeError")
    ELSE IF IsOpToken(x) THEN
        IF last_was_op THEN
            IF OPS[x[1]].assoc = "u"
            THEN parse_loop(flat, pos + 1, exprs, Append(ops, x[1]), TRUE, waitfor)
            ELSE Raised("AssertionError")
        ELSE LET o == IF x # <<"-">> THEN OPS[x[1]] ELSE OPS["~"]
                 st == apply_while(ops, exprs, o)
             IN parse_loop(flat, pos + 1, st[2], Append(st[1], o.op), TRUE, waitfor)
    ELSE IF x = <<"(">> THEN
        LET inner == parse_loop(flat, pos + 1, <<>>, <<>>, TRUE, <<")">>)
        IN IF inner.ok
           THEN parse_loop(flat, inner.pos, Append(exprs, inner.ans), ops, FALSE, waitfor)
           ELSE inner
    ELSE parse_loop(flat, pos + 1, Append(exprs, Leaf(x)), ops, FALSE, waitfor)

parse_expr(flat, pos, waitfor) == parse_loop(flat, pos, <<>>, <<>>, TRUE, waitfor)

to_ast(x) == parse_expr(lex(x), 1, eof)

(***************************************************************************)
(* unparse (test_jit.py): the pretty-printer of the round-trip test.       *)
(***************************************************************************)
RECURSIVE unparse(_)
unparse(t) ==
    IF ~IsTuple(t) THEN t.v
    ELSE IF Len(t.args) = 1 THEN
        LET unary_op == OPS[t.op]
            arg == t.args[1]
        IN IF ~IsTuple(arg) \/ ~left_first(unary_op, OPS[arg.op])
           THEN <<unary_op.op>> \o unparse(arg)
           ELSE <<unary_op.op, "(">> \o unparse(arg) \o <<")">>
    ELSE
        LET binary_op == OPS[t.op]
            arg1 == t.args[1]
            arg2 == t.args[2]
            o == IF binary_op.op = "~" THEN "-" ELSE binary_op.op
            x0 == unparse(arg1)
            y0 == unparse(arg2)
            x == IF IsTuple(arg1) /\ ~left_first(OPS[arg1.op], binary_op)
                 THEN <<"(">> \o x0 \o <<")">> ELSE x0
            y == IF IsTuple(arg2) /\ Len(arg2.args) + 1 > 2
                                  /\ left_first(binary_op, OPS[arg2.op])
                 THEN <<"(">> \o y0 \o <<")">> ELSE y0
        IN IF o # "^" THEN x \o <<" ", o, " ">> \o y ELSE x \o <<"^">> \o y

(***************************************************************************)
(* Doubles.  A finite double is the exact rational n/d in lowest terms,    *)
(* d > 0; d = -1 is the negative zero.  d = 0 marks what exact arithmetic  *)
(* does not carry: NonFinite (an infinity or a NaN, as a division by zero  *)
(* or the square root of a negative number gives) and Inexact (a finite    *)
(* double that is no small rational: an irrational square root, or a       *)
(* magnitude beyond ValueLimit).  Both are absorbing, so a value computed  *)
(* through a division by zero is NonFinite here even where the hardware    *)
(* comes back to a finite one (1/inf).                                     *)
(***************************************************************************)
ValueLimit == 30000

NonFinite == [n |-> 0, d |-> 0]
Inexact == [n |-> 1, d |-> 0]
NegZero == [n |-> 0, d |-> -1]
Int2D(k) == [n |-> k, d |-> 1]

RECURSIVE GCD(_, _)
GCD(a, b) == IF b = 0 THEN a ELSE GCD(b, a % b)

\* n/d (d # 0) in lowest terms; Inexact beyond the modelled range.
Rat(n, d) ==
    LET s == IF d < 0 THEN -1 ELSE 1
        g == GCD(Abs(n), Abs(d))
        nn == s * (n \div g)
        dd == Abs(d) \div g
    IN IF Abs(nn) > ValueLimit \/ dd > ValueLimit THEN Inexact
       ELSE [n |-> nn, d |-> dd]

IsFinite(x) == x.d # 0
IsZero(x) == x.d # 0 /\ x.n = 0
\* The numeric value of a finite double: -0.0 is 0.
Num(x) == IF x = NegZero THEN Int2D(0) ELSE x
\* x == y for doubles that are not NaN.
NumEq(x, y) == Num(x) = Num(y)

Special(x, y) == IF x = Inexact \/ y = Inexact THEN Inexact ELSE NonFinite

add(x, y) ==
    IF ~IsFinite(x) \/ ~IsFinite(y) THEN Special(x, y)
    ELSE LET a == Num(x) b == Num(y) IN Rat(a.n * b.d + b.n * a.d, a.d * b.d)

neg(x) ==
    IF ~IsFinite(x) THEN x
    ELSE IF x = NegZero THEN Int2D(0)
    ELSE IF x.n = 0 THEN NegZero
    ELSE [n |-> -x.n, d |-> x.d]

sub(x, y) == add(x, neg(y))

mul(x, y) ==
    IF ~IsFinite(x) \/ ~IsFinite(y) THEN Special(x, y)
    ELSE LET a == Num(x) b == Num(y) IN Rat(a.n * b.n, a.d * b.d)

\* The hardware's division: x/0 is an infinity or a NaN.
DIV(x, y) ==
    IF ~IsFinite(x) \/ ~IsFinite(y) THEN Special(x, y)
    ELSE IF IsZero(y) THEN NonFinite
    ELSE LET a == Num(x) b == Num(y) IN Rat(a.n * b.d, a.d * b.n)

IsSquare(k) == \E r \in 0..k : r * r = k
ISqrt(k) == CHOOSE r \in 0..k : r * r = k

\* The square root: NaN of a negative number.
sqrt(x) ==
    IF ~IsFinite(x) THEN x
    ELSE IF IsZero(x) THEN x
    ELSE IF x.n < 0 THEN NonFinite
    ELSE IF x.n <= 1024 /\ x.d <= 1024 /\ IsSquare(x.n) /\ IsSquare(x.d)
         THEN [n |-> ISqrt(x.n), d |-> ISqrt(x.d)]
    ELSE Inexact

RECURSIVE ipow(_, _)
ipow(x, k) == IF k = 0 THEN Int2D(1) ELSE mul(x, ipow(x, k - 1))

\* operator.pow on two floats: x ** y.  ZeroDivisionError and the complex
\* result (a TypeError in float()) are the reference interpreter's to handle.
pow(x, y) ==
    IF IsZero(y) \/ x = Int2D(1) THEN [ok |-> TRUE, val |-> Int2D(1), err |-> ""]
    ELSE IF ~IsFinite(x) \/ ~IsFinite(y) THEN [ok |-> TRUE, val |-> Special(x, y), err |-> ""]
    ELSE LET b == Num(y) IN
      IF b.d = 1 THEN
          IF b.n >= 0 THEN [ok |-> TRUE, val |-> ipow(x, b.n), err |-> ""]
          ELSE IF IsZero(x) THEN [ok |-> FALSE, val |-> NonFinite, err |-> "ZeroDivisionError"]
          ELSE [ok |-> TRUE, val |-> DIV(Int2D(1), ipow(x, -b.n)), err |-> ""]
      ELSE IF x.n < 0 THEN [ok |-> FALSE, val |-> NonFinite, err |-> "TypeError"]
      ELSE IF b = [n |-> 1, d |-> 2] THEN [ok |-> TRUE, val |-> sqrt(x), err |-> ""]
      ELSE IF b = [n |-> -1, d |-> 2] THEN
          IF IsZero(x) THEN [ok |-> FALSE, val |-> NonFinite, err |-> "ZeroDivisionError"]
          ELSE [ok |-> TRUE, val |-> DIV(Int2D(1), sqrt(x)), err |-> ""]
      ELSE [ok |-> TRUE, val |-> Inexact, err |-> ""]

\* The double a decimal m * 10^e denotes.
ToDouble(f) ==
    IF f.e >= 0 THEN
        IF f.e > 4 THEN Inexact ELSE Rat(f.m * Pow10(f.e), 1)
    ELSE IF -f.e > 4 THEN Inexact ELSE Rat(f.m, Pow10(-f.e))

(***************************************************************************)
(* str methods used on leaves.                                             *)
(***************************************************************************)
Letters == {"a", "b", "c", "d", "e", "f", "g", "h", "i", "j", "k", "l", "m",
            "n", "o", "p", "q", "r", "s", "t", "u", "v", "w", "x", "y", "z"}

isidentifier(s) ==
    /\ s # <<>>
    /\ s[1] \in Letters \cup {"_"}
    /\ \A i \in 1..Len(s) : s[i] \in Letters \cup DigitChars \cup {"_"}

isdecimal(s) == s # <<>> /\ AllDigits(s)

startswith(s, c) == s # <<>> /\ s[1] = c

(***************************************************************************)
(* free_vars and the lowering pass (trivial_jit.py).                       *)
(***************************************************************************)
RECURSIVE free_vars(_)
free_vars(expr) ==
    IF ~IsTuple(expr) THEN (IF isidentifier(expr.v) THEN {expr.v} ELSE {})
    ELSE UNION {free_vars(expr.args[i]) : i \in 1..Len(expr.args)}

Ok(a) == [ok |-> TRUE, ans |-> a, err |-> ""]
Err(e) == [ok |-> FALSE, ans |-> NoAst, err |-> e]

\* The rules for a power whose base b and exponent e are lowered already;
\* again is simplify_expr of the inner power of the reciprocal rule.
pow_rules(expr, b, e, again) ==
    IF ~IsTuple(e) THEN
        IF startswith(e.v, "-") THEN
            IF again.ok THEN Ok(Tuple("/", <<Leaf(<<"1">>), again.ans>>)) ELSE again
        ELSE IF e.v = <<"0", ".", "5">> THEN Ok(Tuple("sqrt", <<b>>))
        ELSE IF e.v = <<"2">> THEN Ok(Tuple("*", <<b, b>>))
        ELSE IF e.v = <<"1">> THEN Ok(b)
        ELSE IF e.v = <<"0">> THEN Ok(Leaf(<<"1">>))
        ELSE IF isdecimal(e.v) THEN Ok(expr)
        ELSE Err("ValueError")
    ELSE Err("ValueError")

RECURSIVE simplify_expr(_)
simplify_expr(expr) ==
    IF ~IsTuple(expr) THEN Ok(expr)
    ELSE IF expr.op = "-" /\ expr.args = <<>> THEN Err("IndexError")
    ELSE IF expr.op = "-" /\ ~IsTuple(expr.args[1]) /\ ~isidentifier(expr.args[1].v)
         THEN Ok(Leaf(<<"-">> \o expr.args[1].v))
    ELSE IF expr.op = "^" THEN
        IF Len(expr.args) # 2 THEN Err("ValueError")
        ELSE LET b == simplify_expr(expr.args[1])
                 e == simplify_expr(expr.args[2])
             IN IF ~b.ok THEN b
                ELSE IF ~e.ok THEN e
                ELSE pow_rules(expr, b.ans, e.ans,
                        IF ~IsTuple(e.ans) /\ startswith(e.ans.v, "-")
                        THEN simplify_expr(Tuple("^", <<b.ans, Leaf(Tail(e.ans.v))>>))
                        ELSE Err(""))
    ELSE LET kids == [i \in 1..Len(expr.args) |-> simplify_expr(expr.args[i])]
         IN IF \E i \in 1..Len(kids) : ~kids[i].ok
            THEN kids[CHOOSE i \in 1..Len(kids) :
                        ~kids[i].ok /\ \A j \in 1..(i - 1) : kids[j].ok]
            ELSE Ok(Tuple(expr.op, [i \in 1..Len(kids) |-> kids[i].ans]))

(***************************************************************************)
(* naive_evaluator (test_jit.py): the reference tree interpreter, with     *)
(* div_by_0_is_inf.  eval_expr gives [ok, val, err]; an exception other    *)
(* than the handled ZeroDivisionError makes the whole result a NaN.        *)
(***************************************************************************)
EvOk(v) == [ok |-> TRUE, val |-> v, err |-> ""]
EvErr(e) == [ok |-> FALSE, val |-> NonFinite, err |-> e]

\* float(expr) of a leaf, as a double.
float_value(s) == LET f == float(s) IN IF f.ok THEN EvOk(ToDouble(f)) ELSE EvErr("ValueError")

\* op(*args) for the operator's semantic function; x / 0 and 0 ** negative
\* raise ZeroDivisionError, which handle_zero_div turns into an infinity or
\* a NaN.
op_call(fun, a) ==
    CASE fun = "add" /\ Len(a) = 2 -> EvOk(add(a[1], a[2]))
      [] fun = "sub" /\ Len(a) = 2 -> EvOk(sub(a[1], a[2]))
      [] fun = "mul" /\ Len(a) = 2 -> EvOk(mul(a[1], a[2]))
      [] fun = "truediv" /\ Len(a) = 2 ->
            IF IsFinite(a[2]) /\ IsZero(a[2]) THEN EvOk(NonFinite)
            ELSE EvOk(DIV(a[1], a[2]))
      [] fun = "pow" /\ Len(a) = 2 ->
            LET r == pow(a[1], a[2])
            IN IF r.ok THEN EvOk(r.val)
               ELSE IF r.err = "ZeroDivisionError" THEN EvOk(NonFinite)
               ELSE EvErr(r.err)
      [] fun = "neg" /\ Len(a) = 1 -> EvOk(neg(a[1]))
      [] fun = "sqrt" /\ Len(a) = 1 ->
            IF IsFinite(a[1]) /\ a[1].n < 0 THEN EvErr("ValueError") ELSE EvOk(sqrt(a[1]))
      [] OTHER -> EvErr("TypeError")

RECURSIVE eval_expr(_, _)
eval_expr(expr, env) ==
    IF ~IsTuple(expr) THEN
        IF expr.v \in DOMAIN env THEN EvOk(env[expr.v]) ELSE float_value(expr.v)
    ELSE LET a == [i \in 1..Len(expr.args) |-> eval_expr(expr.args[i], env)]
         IN IF \E i \in 1..Len(a) : ~a[i].ok
            THEN a[CHOOSE i \in 1..Len(a) : ~a[i].ok /\ \A j \in 1..(i - 1) : a[j].ok]
            ELSE op_call(OPS[expr.op].fun, [i \in 1..Len(a) |-> a[i].val])

\* f(*args) of naive_evaluator(expr): NaN when the evaluation raised one of
\* the exceptions f catches; any other exception leaves f.
naive_evaluator(expr, env) ==
    LET r == eval_expr(expr, env)
    IN IF r.ok THEN r
       ELSE IF r.err \in {"ZeroDivisionError", "TypeError", "OverflowError"}
            THEN EvOk(NonFinite)
       ELSE r

\* Whether the reference evaluation divides by zero somewhere (x / 0, or 0
\* to a negative power).
RECURSIVE divides_by_zero(_, _)
divides_by_zero(expr, env) ==
    /\ IsTuple(expr)
    /\ \/ \E i \in 1..Len(expr.args) : divides_by_zero(expr.args[i], env)
       \/ /\ Len(expr.args) = 2
          /\ LET x == eval_expr(expr.args[1], env)
                 y == eval_expr(expr.args[2], env)
             IN /\ x.ok /\ y.ok
                /\ \/ expr.op = "/" /\ IsZero(y.val)
                   \/ expr.op = "^" /\ IsZero(x.val) /\ IsFinite(y.val) /\ y.val.n < 0

(***************************************************************************)
(* The instruction stream.  An operand is a virtual register (xmm or gpr,  *)
(* numbered in the order the code generator allocates it), the memory at   *)
(* the address in a register ([reg]), a float64 constant, an integer       *)
(* immediate or a function argument.  A jump carries the distance to its   *)
(* label.                                                                  *)
(***************************************************************************)
Xmm(r) == [k |-> "xmm", r |-> r, c |-> Int2D(0)]
Gpr(r) == [k |-> "gpr", r |-> r, c |-> Int2D(0)]
Mem(r) == [k |-> "mem", r |-> r, c |-> Int2D(0)]
Const(v) == [k |-> "const", r |-> 0, c |-> v]
Imm(i) == [k |-> "imm", r |-> i, c |-> Int2D(0)]
Arg(i) == [k |-> "arg", r |-> i, c |-> Int2D(0)]
NoOperand == [k |-> "none", r |-> 0, c |-> Int2D(0)]

Instr(op, a, b) == [op |-> op, a |-> a, b |-> b, t |-> 0]
Jump(op, t) == [op |-> op, a |-> NoOperand, b |-> NoOperand, t |-> t]

\* Negate reg_x: XOR with the sign bit, loaded into a fresh register.
\* Gives [code, next], next the first register not allocated yet.
_NEGSD(reg_x, next) ==
    LET temp == Xmm(next)
    IN [code |-> <<Instr("MOVSD", temp, Const(NegZero)),
                   Instr("XORPD", reg_x, temp)>>,
        next |-> next + 1]

\* _POWSD with the loop check against 0 instead of 1: the last bit is
\* consumed in the loop and reg_x squared once more before the final product.
_POWSD_until_zero(reg_x, reg_y, next) ==
    LET cnt == Gpr(next)
    IN [code |-> <<Instr("CVTSD2SI", cnt, reg_y),
                   Instr("TEST", cnt, cnt),
                   Instr("MOVSD", reg_y, Const(Int2D(1))),
                   Jump("JNZ", 6),
                   Instr("MOVSD", reg_x, Const(Int2D(1))),
                   Instr("SHR", cnt, Imm(1)),
                   Jump("JNC", 2),
                   Instr("MULSD", reg_y, reg_x),
                   Instr("MULSD", reg_x, reg_x),
                   Instr("CMP", cnt, Imm(0)),
                   Jump("JG", -5),
                   Instr("MULSD", reg_x, reg_y)>>,
        next |-> next + 1]

\* reg_x ** reg_y by squaring; the labels are lbl_loop (instruction 6),
\* lbl_even (9) and lbl_loop_check (10).
_POWSD(reg_x, reg_y, next) ==
    LET cnt == Gpr(next)
    IN [code |-> <<Instr("CVTSD2SI", cnt, reg_y),
                   Instr("TEST", cnt, cnt),
                   Instr("MOVSD", reg_y, Const(Int2D(1))),
                   Jump("JNZ", 6),
                   Instr("MOVSD", reg_x, Const(Int2D(1))),
                   Instr("SHR", cnt, Imm(1)),
                   Jump("JNC", 2),
                   Instr("MULSD", reg_y, reg_x),
                   Instr("MULSD", reg_x, reg_x),
                   Instr("CMP", cnt, Imm(1)),
                   Jump("JG", -5),
                   Instr("MULSD", reg_x, reg_y)>>,
        next |-> next + 1]

Emitted(code, reg, next) == [ok |-> TRUE, code |-> code, reg |-> reg, next |-> next, err |-> ""]
NotEmitted(e) == [ok |-> FALSE, code |-> <<>>, reg |-> NoOperand, next |-> 0, err |-> e]

\* ASM[raw_op.fun](*args): the instructions of one operator on the
\* registers of its operands.
ASM(fun, args, next) ==
    CASE fun = "add" /\ Len(args) = 2 ->
            Emitted(<<Instr("ADDSD", args[1], args[2])>>, args[1], next)
      [] fun = "truediv" /\ Len(args) = 2 ->
            Emitted(<<Instr("DIVSD", args[1], args[2])>>, args[1], next)
      [] fun = "mul" /\ Len(args) = 2 ->
            Emitted(<<Instr("MULSD", args[1], args[2])>>, args[1], next)
      [] fun = "sub" /\ Len(args) = 2 ->
            Emitted(<<Instr("SUBSD", args[1], args[2])>>, args[1], next)
      [] fun = "neg" /\ Len(args) = 1 ->
            LET e == _NEGSD(args[1], next) IN Emitted(e.code, args[1], e.next)
      [] fun = "pow" /\ Len(args) = 2 ->
            LET e == _POWSD(args[1], args[2], next) IN Emitted(e.code, args[1], e.next)
      [] fun = "sqrt" /\ Len(args) = 1 ->
            Emitted(<<Instr("SQRTSD", args[1], args[1])>>, args[1], next)
      [] OTHER -> NotEmitted("TypeError")

\* A leaf compiled without the copy: a variable is used in the operand the
\* environment binds it to.
jit_leaf_in_place(expr, env, next) ==
    LET f == float(expr.v)
        tmp == Xmm(next)
    IN IF isidentifier(expr.v) THEN
           IF expr.v \in DOMAIN env
           THEN Emitted(<<>>, env[expr.v], next)
           ELSE NotEmitted("KeyError")
       ELSE IF f.ok
           THEN Emitted(<<Instr("MOVSD", tmp, Const(ToDouble(f)))>>, tmp, next + 1)
           ELSE NotEmitted("ValueError")

\* The leaf of jit_expr: the variable's operand or the constant is copied
\* into a fresh register.
jit_leaf(expr, env, next) ==
    LET f == float(expr.v)
        tmp == Xmm(next)
    IN IF isidentifier(expr.v) THEN
           IF expr.v \in DOMAIN env
           THEN Emitted(<<Instr("MOVSD", tmp, env[expr.v])>>, tmp, next + 1)
           ELSE NotEmitted("KeyError")
       ELSE IF f.ok
           THEN Emitted(<<Instr("MOVSD", tmp, Const(ToDouble(f)))>>, tmp, next + 1)
           ELSE NotEmitted("ValueError")

\* jit_expr(expr, env): the code that computes expr and the register that
\* holds its value.  The operands are compiled last to first.
RECURSIVE jit_expr(_, _, _)
jit_expr(expr, env, next) ==
    IF ~IsTuple(expr) THEN jit_leaf(expr, env, next)
    ELSE IF Len(expr.args) = 1 THEN
        LET a1 == jit_expr(expr.args[1], env, next)
        IN IF ~a1.ok THEN a1
           ELSE LET e == ASM(OPS[expr.op].fun, <<a1.reg>>, a1.next)
                IN IF ~e.ok THEN e ELSE Emitted(a1.code \o e.code, a1.reg, e.next)
    ELSE IF Len(expr.args) = 2 THEN
        LET a2 == jit_expr(expr.args[2], env, next)
            a1 == jit_expr(expr.args[1], env, a2.next)
        IN IF ~a2.ok THEN a2
           ELSE IF ~a1.ok THEN a1
           ELSE LET e == ASM(OPS[expr.op].fun, <<a1.reg, a2.reg>>, a1.next)
                IN IF ~e.ok THEN e
                   ELSE Emitted(a2.code \o a1.code \o e.code, a1.reg, e.next)
    ELSE NotEmitted("TypeError")

\* sorted(names): by code point, for identifiers over digits, '_' and
\* lower-case letters.
CharOrder == <<"0", "1", "2", "3", "4", "5", "6", "7", "8", "9", "_",
               "a", "b", "c", "d", "e", "f", "g", "h", "i", "j", "k", "l", "m",
               "n", "o", "p", "q", "r", "s", "t", "u", "v", "w", "x", "y", "z">>
ord(c) == CHOOSE i \in DOMAIN CharOrder : CharOrder[i] = c

RECURSIVE StrLess(_, _)
StrLess(s, t) ==
    IF t = <<>> THEN FALSE
    ELSE IF s = <<>> THEN TRUE
    ELSE IF s[1] # t[1] THEN ord(s[1]) < ord(t[1])
    ELSE StrLess(Tail(s), Tail(t))

Orders(S) ==
    {q \in [1..Cardinality(S) -> S] : \A i, j \in DOMAIN q : i # j => q[i] # q[j]}

sorted(S) == CHOOSE q \in Orders(S) : \A i, j \in DOMAIN q : i < j => StrLess(q[i], q[j])

\* The function a compile yields: its code, the binding environment, the
\* place of jit_expr's instructions in the code (lo..hi) and the registers
\* allocated.  kind: "scalar" | "reducer" | "none" (the compile raised).
NoFunction(e) ==
    [kind |-> "none", code |-> <<>>, env |-> <<>>, lo |-> 1, hi |-> 0,
     nregs |-> 0, err |-> e]

\* jit_fun(name, arg_names, body_expr)
jit_fun(arg_names, body_expr) ==
    IF {arg_names[i] : i \in DOMAIN arg_names} # free_vars(body_expr)
    THEN NoFunction("AssertionError")
    ELSE LET k == Len(arg_names)
             loads == [i \in 1..k |-> Instr("LOAD_ARGUMENT", Xmm(i), Arg(i))]
             env == [v \in {arg_names[i] : i \in 1..k} |->
                        Xmm(CHOOSE i \in 1..k : arg_names[i] = v)]
             low == simplify_expr(body_expr)
             expr_asm == jit_expr(low.ans, env, k + 1)
         IN IF ~low.ok THEN NoFunction(low.err)
            ELSE IF ~expr_asm.ok THEN NoFunction(expr_asm.err)
            ELSE [kind |-> "scalar",
                  code |-> loads \o expr_asm.code
                               \o <<Instr("RETURN", expr_asm.reg, NoOperand)>>,
                  env |-> env, lo |-> k + 1, hi |-> k + Len(expr_asm.code),
                  nregs |-> expr_asm.next - 1, err |-> ""]

jit_evaluator(expr) == jit_fun(sorted(free_vars(expr)), expr)

\* The loop with an entry test that subtracts nothing and so never borrows:
\* the body runs before the count is looked at.
down_under_do_while(cnt, body) ==
    <<Instr("SUB", cnt, Imm(0)), Jump("JB", Len(body) + 3)>>
        \o body
        \o <<Instr("SUB", cnt, Imm(1)), Jump("JNB", -(Len(body) + 1))>>

\* down_under(cnt): the countdown loop around `body`; While.begin is the
\* body's first instruction, While.end the one after JNB.
down_under(cnt, body) ==
    <<Instr("SUB", cnt, Imm(1)), Jump("JB", Len(body) + 3)>>
        \o body
        \o <<Instr("SUB", cnt, Imm(1)), Jump("JNB", -(Len(body) + 1))>>

\* array_reducer(name, vars, expr), vars here var_names; op_args is free_vars(expr) in the order
\* the frozenset iterates.
array_reducer(var_names, expr, op_args) ==
    IF Len(var_names) # 2 \/ Cardinality(free_vars(expr)) # 2
    THEN NoFunction("AssertionError")
    ELSE LET cnt == Gpr(1)
             reg_a == Gpr(2)
             reg_acc == Xmm(3)
             env == [v \in free_vars(expr) |->
                        IF v = op_args[1] THEN reg_acc ELSE Mem(reg_a.r)]
             last_reg == jit_expr(expr, env, 4)
             loads == <<Instr("LOAD_ARGUMENT", cnt, Arg(2)),
                        Instr("LOAD_ARGUMENT", reg_a, Arg(3)),
                        Instr("LOAD_ARGUMENT", reg_acc, Arg(1))>>
             body == last_reg.code \o <<Instr("MOVSD", reg_acc, last_reg.reg),
                                        Instr("ADD", reg_a, Imm(8))>>
         IN IF ~last_reg.ok THEN NoFunction(last_reg.err)
            ELSE [kind |-> "reducer",
                  code |-> loads \o down_under(cnt, body)
                               \o <<Instr("RETURN", reg_acc, NoOperand)>>,
                  env |-> env, lo |-> 6, hi |-> 5 + Len(last_reg.code),
                  nregs |-> last_reg.next - 1, err |-> ""]

(***************************************************************************)
(* The machine that runs a compiled function: one action per instruction   *)
(* class.  Integer registers hold WordBits-bit words; the pointer in       *)
(* reg_a is a byte offset from the start of the caller's buffer and does   *)
(* not wrap (no run gets near the end of the address space).  A load from  *)
(* outside the buffer is undefined: it faults or yields some double.       *)
(***************************************************************************)
RECURSIVE Pow2(_)
Pow2(k) == IF k <= 0 THEN 1 ELSE 2 * Pow2(k - 1)

Word == Pow2(WordBits)
ToWord(k) == k % Word
Signed(w) == IF w >= Word \div 2 THEN w - Word ELSE w
MSB(w) == w >= Word \div 2

Garbage == {Int2D(0), Int2D(1)}

Running == status = "running" /\ pc \in 1..Len(fn.code)
cur == fn.code[pc]

InBounds(addr) == addr % 8 = 0 /\ addr \div 8 \in 0..(Len(buf) - 1)

\* The value of a source operand.
SrcVal(o) ==
    CASE o.k = "xmm" -> xmm[o.r]
      [] o.k = "const" -> o.c
      [] o.k = "mem" -> IF InBounds(gpr[o.r]) THEN buf[gpr[o.r] \div 8 + 1] ELSE Inexact
      [] OTHER -> Inexact

\* Write v to a floating-point destination: a register, or memory.
Store(dst, v) ==
    /\ wlog' = wlog \cup {[pc |-> pc, k |-> dst.k,
                           r |-> IF dst.k = "mem" THEN gpr[dst.r] ELSE dst.r]}
    /\ IF dst.k = "xmm" THEN xmm' = [xmm EXCEPT ![dst.r] = v] /\ UNCHANGED buf
       ELSE IF dst.k = "mem" /\ InBounds(gpr[dst.r])
            THEN buf' = [buf EXCEPT ![gpr[dst.r] \div 8 + 1] = v] /\ UNCHANGED xmm
       ELSE UNCHANGED <<xmm, buf>>

\* Write word w to an integer register and set the flags.
StoreWord(dst, w, f) ==
    /\ wlog' = wlog \cup {[pc |-> pc, k |-> "gpr", r |-> dst.r]}
    /\ gpr' = [gpr EXCEPT ![dst.r] = w]
    /\ flags' = f

\* LOAD.ARGUMENT(reg, arg)
ExecLoadArgument ==
    /\ Running /\ cur.op = "LOAD_ARGUMENT"
    /\ IF cur.a.k = "xmm"
       THEN Store(cur.a, cargs[cur.b.r]) /\ UNCHANGED <<gpr, flags>>
       ELSE StoreWord(cur.a, IF cur.b.r = 3 /\ mode = "reducer" THEN 0
                             ELSE ToWord(cargs[cur.b.r].n), flags)
            /\ UNCHANGED <<xmm, buf>>
    /\ pc' = pc + 1
    /\ UNCHANGED <<status, result, reads>>
    /\ UNCHANGED <<parse_vars, jit_vars>>

\* MOVSD(dst, src): a load from outside the buffer yields some double.
ExecMOVSD ==
    /\ Running /\ cur.op = "MOVSD"
    /\ IF cur.b.k = "mem"
       THEN /\ \E v \in (IF InBounds(gpr[cur.b.r])
                         THEN {buf[gpr[cur.b.r] \div 8 + 1]} ELSE Garbage) :
                  Store(cur.a, v)
            /\ reads' = Append(reads, gpr[cur.b.r])
       ELSE Store(cur.a, SrcVal(cur.b)) /\ UNCHANGED reads
    /\ pc' = pc + 1
    /\ UNCHANGED <<status, gpr, flags, result>>
    /\ UNCHANGED <<parse_vars, jit_vars>>

\* A load from outside the buffer that hits an unmapped page.
ExecFault ==
    /\ Running /\ cur.op = "MOVSD" /\ cur.b.k = "mem"
    /\ ~InBounds(gpr[cur.b.r])
    /\ reads' = Append(reads, gpr[cur.b.r])
    /\ status' = "fault"
    /\ UNCHANGED <<buf, pc, xmm, gpr, flags, result, wlog>>
    /\ UNCHANGED <<parse_vars, jit_vars>>

\* XORPD on the doubles the generator uses it on: the sign-bit mask.
XOR(x, y) ==
    IF y = NegZero THEN neg(x)
    ELSE IF x = y THEN Int2D(0)
    ELSE Inexact

\* ADDSD, SUBSD, MULSD, DIVSD, SQRTSD, XORPD
ExecArith ==
    /\ Running /\ cur.op \in {"ADDSD", "SUBSD", "MULSD", "DIVSD", "SQRTSD", "XORPD"}
    /\ LET x == SrcVal(cur.a)
           y == SrcVal(cur.b)
       IN Store(cur.a, CASE cur.op = "ADDSD" -> add(x, y)
                         [] cur.op = "SUBSD" -> sub(x, y)
                         [] cur.op = "MULSD" -> mul(x, y)
                         [] cur.op = "DIVSD" -> DIV(x, y)
                         [] cur.op = "SQRTSD" -> sqrt(y)
                         [] cur.op = "XORPD" -> XOR(x, y))
    /\ pc' = pc + 1
    /\ UNCHANGED <<status, gpr, flags, result, reads>>
    /\ UNCHANGED <<parse_vars, jit_vars>>

\* The integer the double converts to, rounding to nearest even; the
\* "integer indefinite" (the most negative word) when it does not fit.
Indefinite == Word \div 2
cvtsd2si(x) ==
    IF ~IsFinite(x) THEN Indefinite
    ELSE LET v == Num(x)
             q == v.n \div v.d
             rem == v.n - q * v.d
             k == IF 2 * rem < v.d THEN q
                  ELSE IF 2 * rem > v.d THEN q + 1
                  ELSE IF q % 2 = 0 THEN q ELSE q + 1
         IN IF k < -(Word \div 2) \/ k > Word \div 2 - 1 THEN Indefinite ELSE ToWord(k)

\* CVTSD2SI(cnt, reg_y)
ExecCVTSD2SI ==
    /\ Running /\ cur.op = "CVTSD2SI"
    /\ StoreWord(cur.a, cvtsd2si(SrcVal(cur.b)), flags)
    /\ pc' = pc + 1
    /\ UNCHANGED <<status, buf, xmm, result, reads>>
    /\ UNCHANGED <<parse_vars, jit_vars>>

Flags(cf, zf, sf, of) == [cf |-> cf, zf |-> zf, sf |-> sf, of |-> of]

\* The flags of a - b.
SubFlags(a, b) ==
    LET r == ToWord(a - b)
    IN Flags(a < b, r = 0, MSB(r), Signed(a) - Signed(b) # Signed(r))

\* TEST, CMP, SUB, SHR on words; ADD on the pointer.
ExecInt ==
    /\ Running /\ cur.op \in {"TEST", "CMP", "SUB", "SHR", "ADD"}
    /\ LET a == gpr[cur.a.r]
           b == IF cur.b.k = "imm" THEN cur.b.r ELSE gpr[cur.b.r]
       IN CASE cur.op = "TEST" ->
                 /\ flags' = Flags(FALSE, a = 0, MSB(a), FALSE)
                 /\ UNCHANGED <<gpr, wlog>>
            [] cur.op = "CMP" ->
                 /\ flags' = SubFlags(a, ToWord(b))
                 /\ UNCHANGED <<gpr, wlog>>
            [] cur.op = "SUB" ->
                 StoreWord(cur.a, ToWord(a - b), SubFlags(a, ToWord(b)))
            [] cur.op = "SHR" ->
                 StoreWord(cur.a, a \div 2, Flags(a % 2 = 1, a \div 2 = 0, FALSE, MSB(a)))
            [] cur.op = "ADD" ->
                 StoreWord(cur.a, a + b, Flags(FALSE, a + b = 0, FALSE, FALSE))
    /\ pc' = pc + 1
    /\ UNCHANGED <<status, buf, xmm, result, reads>>
    /\ UNCHANGED <<parse_vars, jit_vars>>

\* Whether the conditional jump is taken.
Taken(op, f) ==
    CASE op = "JB" -> f.cf
      [] op = "JNB" -> ~f.cf
      [] op = "JNC" -> ~f.cf
      [] op = "JNZ" -> ~f.zf
      [] op = "JG" -> ~f.zf /\ f.sf = f.of

\* JB, JNB, JNC, JNZ, JG
ExecJcc ==
    /\ Running /\ cur.op \in {"JB", "JNB", "JNC", "JNZ", "JG"}
    /\ pc' = IF Taken(cur.op, flags) THEN pc + cur.t ELSE pc + 1
    /\ UNCHANGED <<status, buf, xmm, gpr, flags, result, wlog, reads>>
    /\ UNCHANGED <<parse_vars, jit_vars>>

\* RETURN(reg)
ExecReturn ==
    /\ Running /\ cur.op = "RETURN"
    /\ result' = xmm[cur.a.r]
    /\ status' = "returned"
    /\ UNCHANGED <<buf, pc, xmm, gpr, flags, wlog, reads>>
    /\ UNCHANGED <<parse_vars, jit_vars>>

\* f(*args): the loaded function is called.
Call ==
    /\ status = "loaded"
    /\ status' = "running"
    /\ pc' = 1
    /\ UNCHANGED <<buf, xmm, gpr, flags, result, wlog, reads>>
    /\ UNCHANGED <<parse_vars, jit_vars>>

(***************************************************************************)
(* The compiles.                                                           *)
(***************************************************************************)
Registers(f) == [r \in 1..f.nregs |-> Int2D(0)]
Words(f) == [r \in 1..f.nregs |-> 0]

Compiled(f) ==
    /\ fn' = f
    /\ status' = IF f.kind = "none" THEN "rejected" ELSE "loaded"
    /\ xmm' = Registers(f)
    /\ gpr' = Words(f)
    /\ UNCHANGED <<mode, in_expr, cargs, buf, pc, flags, result, wlog, reads>>
    /\ UNCHANGED parse_vars

\* jit_evaluator(expr)
JitEvaluator ==
    /\ status = "source" /\ mode = "scalar"
    /\ lowered' = simplify_expr(in_expr)
    /\ Compiled(jit_evaluator(in_expr))

\* make_array_aggregator(name, ["t", "x"], expr, initial): the frozenset of
\* the free variables iterates in some order.
ArrayReducer ==
    /\ status = "source" /\ mode = "reducer"
    /\ UNCHANGED lowered
    /\ \E op_args \in Orders(free_vars(in_expr)) :
          Compiled(array_reducer(<<<<"t">>, <<"x">>>>, in_expr, op_args))

(***************************************************************************)
(* The inputs of the parser's tests: the trees of the hypothesis strategy  *)
(* `ast` (test_jit.py) and expression strings.                             *)
(***************************************************************************)
numbers == {<<"2">>, <<"1", ".", "5", "e", "-", "0", "5">>}
unary_ops == {"-"}
binary_ops == {o \in OpSymbols : OPS[o].assoc # "u"}

RECURSIVE TreesOfSize(_, _)
TreesOfSize(leaves, k) ==
    IF k = 0 THEN {Leaf(n) : n \in leaves}
    ELSE {Tuple(u, <<a>>) : u \in unary_ops, a \in TreesOfSize(leaves, k - 1)}
         \cup UNION {{Tuple(o, <<a, b>>) : o \in binary_ops,
                                           a \in TreesOfSize(leaves, i),
                                           b \in TreesOfSize(leaves, k - 1 - i)}
                     : i \in 0..(k - 1)}

Trees(leaves, n) == UNION {TreesOfSize(leaves, k) : k \in 0..n}

TextChars == {"1", "+", "-", "^", "(", ")", " "}
Texts == UNION {[1..n -> TextChars] : n \in 0..MaxTextLen}

\* 'a op1 b op2 c' and '-a^b', as test_associativity writes them.
operands == {<<"1">>, <<"2">>, <<"x">>}
infix == {"+", "-", "*", "/", "^"}
InfixOp(c) == IF c = "-" THEN "~" ELSE c
Chain(a, o1, b, o2, c) == a \o <<" ", o1, " ">> \o b \o <<" ", o2, " ">> \o c
NegPow(a, b) == <<"-">> \o a \o <<"^">> \o b
ChainTexts ==
    {Chain(a, o1, b, o2, c) : a \in operands, b \in operands, c \in operands,
                              o1 \in infix, o2 \in infix}
    \cup {NegPow(a, b) : a \in operands, b \in operands}

Pending == [ok |-> FALSE, ans |-> NoAst, pos |-> 0, err |-> "pending"]

\* No function, nothing running: the machine while the parser is tested.
NotCompiled == NoFunction("not compiled")

IdleCpu ==
    /\ status = "source"
    /\ fn = NotCompiled
    /\ lowered = Err("pending")
    /\ pc = 0
    /\ xmm = <<>>
    /\ gpr = <<>>
    /\ flags = Flags(FALSE, FALSE, FALSE, FALSE)
    /\ result = Int2D(0)
    /\ wlog = {}
    /\ reads = <<>>

InitParse ==
    /\ IdleCpu
    /\ mode = "none" /\ in_expr = NoAst /\ cargs = <<>> /\ buf = <<>>
    /\ parsed = Pending
    /\ \/ /\ ast \in Trees(numbers, MaxNodes)
          /\ as_str = <<>>
          /\ pphase = "start"
       \/ /\ ast = NoAst
          /\ as_str \in Texts \cup ChainTexts
          /\ pphase = "text"

\* test_parse_roundtrips: as_str := unparse(ast)
Unparse ==
    /\ pphase = "start"
    /\ as_str' = unparse(ast)
    /\ pphase' = "text"
    /\ UNCHANGED <<ast, parsed>>
    /\ UNCHANGED <<jit_vars, cpu_vars>>

\* to_ast(as_str)
ToAst ==
    /\ pphase = "text"
    /\ parsed' = to_ast(as_str)
    /\ pphase' = "parsed"
    /\ UNCHANGED <<ast, as_str>>
    /\ UNCHANGED <<jit_vars, cpu_vars>>

NextParse == Unparse \/ ToAst

SpecParse == InitParse /\ [][NextParse]_vars

(***************************************************************************)
(* The compile paths: jit_evaluator on expressions over numbers and x,     *)
(* and make_array_aggregator on bodies over t and x, each compiled, loaded *)
(* and called once.                                                        *)
(***************************************************************************)
scalar_leaves ==
    {<<"0">>, <<"1">>, <<"2">>, <<"3">>, <<"4">>, <<"0", ".", "5">>, <<"x">>}
ArgValues == {Int2D(-3), Int2D(4)}

reducer_leaves == {<<"t">>, <<"x">>}
Bodies == {Tuple(o, <<Leaf(a), Leaf(b)>>) :
              o \in binary_ops, a \in reducer_leaves, b \in reducer_leaves}
Initials == {Int2D(0), Int2D(4)}
Elements == {Int2D(2), Int2D(3)}
Buffers == UNION {[1..n -> Elements] : n \in 0..MaxBuf}

NoParse ==
    ast = NoAst /\ as_str = <<>> /\ parsed = Pending /\ pphase = "idle"

Init ==
    /\ NoParse
    /\ IdleCpu
    /\ \/ /\ mode = "scalar"
          /\ in_expr \in Trees(scalar_leaves, MaxExprNodes)
          /\ cargs \in [1..Cardinality(free_vars(in_expr)) -> ArgValues]
          /\ buf = <<>>
       \/ /\ mode = "reducer"
          /\ in_expr \in Bodies
          /\ buf \in Buffers
          /\ \E initial \in Initials, n \in (-MaxNegCount)..Len(buf) :
                cargs = <<initial, Int2D(n), Int2D(0)>>

Exec ==
    \/ ExecLoadArgument
    \/ ExecMOVSD
    \/ ExecArith
    \/ ExecCVTSD2SI
    \/ ExecInt
    \/ ExecJcc
    \/ ExecReturn

Next ==
    \/ JitEvaluator
    \/ ArrayReducer
    \/ Call
    \/ Exec
    \/ ExecFault

Spec == Init /\ [][Next]_vars

(***************************************************************************)
(* _POWSD on its own: reg_x = b and reg_y = n are loaded from the          *)
(* arguments, the instructions of _POWSD run, reg_x is returned.           *)
(***************************************************************************)
pow_fun ==
    LET reg_x == Xmm(1)
        reg_y == Xmm(2)
        e == _POWSD(reg_x, reg_y, 3)
    IN [kind |-> "pow",
        code |-> <<Instr("LOAD_ARGUMENT", reg_x, Arg(1)),
                   Instr("LOAD_ARGUMENT", reg_y, Arg(2))>>
                     \o e.code \o <<Instr("RETURN", reg_x, NoOperand)>>,
        env |-> <<>>, lo |-> 3, hi |-> 2 + Len(e.code),
        nregs |-> e.next - 1, err |-> ""]

Bases == {Int2D(-2), Int2D(0), Int2D(1), Int2D(3), [n |-> 1, d |-> 2]}

InitPow ==
    /\ NoParse
    /\ mode = "pow" /\ in_expr = NoAst /\ buf = <<>>
    /\ lowered = Err("pending")
    /\ fn = pow_fun
    /\ status = "loaded"
    /\ pc = 0
    /\ xmm = Registers(pow_fun)
    /\ gpr = Words(pow_fun)
    /\ flags = Flags(FALSE, FALSE, FALSE, FALSE)
    /\ result = Int2D(0)
    /\ wlog = {}
    /\ reads = <<>>
    /\ \E b \in Bases, n \in 0..MaxExp : cargs = <<b, Int2D(n)>>

NextPow ==
    \/ Call
    \/ ExecLoadArgument
    \/ ExecMOVSD
    \/ ExecArith
    \/ ExecCVTSD2SI
    \/ ExecInt
    \/ ExecJcc
    \/ ExecReturn

\* The processor keeps executing instructions.
SpecPow == InitPow /\ [][NextPow]_vars /\ WF_vars(NextPow)

(***************************************************************************)
(* C1.  Round trip: for every tree over non-negative canonical numbers,    *)
(* neg and the five binary operators, to_ast(unparse(ast)) returns the     *)
(* same tree.                                                              *)
(***************************************************************************)
C1_RoundTrip ==
    (pphase = "parsed" /\ ast # NoAst) => (parsed.ok /\ parsed.ans = ast)

\* 2^-1.5e-05^2 has been printed and parsed back.
C1_Witness ==
    /\ pphase = "parsed"
    /\ ast = Tuple("^", <<Leaf(<<"2">>),
                 Tuple("-", <<Tuple("^", <<Leaf(<<"1", ".", "5", "e", "-", "0", "5">>),
                                           Leaf(<<"2">>)>>)>>)>>)
    /\ as_str = <<"2", "^", "-", "1", ".", "5", "e", "-", "0", "5", "^", "2">>
    /\ parsed.ans = ast

(***************************************************************************)
(* C2.  Precedence and associativity: 'a op1 b op2 c' groups to the left   *)
(* when op1 binds tighter or both have the same precedence (+ - * /, all   *)
(* left-associative), to the right when op2 binds tighter or both are ^;   *)
(* '-a^b' is neg(a^b).                                                     *)
(***************************************************************************)
Prec(c) == OPS[InfixOp(c)].prec

C2_Precedence ==
    pphase = "parsed" =>
      /\ \A a \in operands, b \in operands, c \in operands, o1 \in infix, o2 \in infix :
            as_str = Chain(a, o1, b, o2, c) =>
              /\ parsed.ok
              /\ (Prec(o1) > Prec(o2) \/ (Prec(o1) = Prec(o2) /\ o1 # "^")) =>
                    parsed.ans = Tuple(InfixOp(o2),
                                       <<Tuple(InfixOp(o1), <<Leaf(a), Leaf(b)>>), Leaf(c)>>)
              /\ (Prec(o2) > Prec(o1) \/ (o1 = "^" /\ o2 = "^")) =>
                    parsed.ans = Tuple(InfixOp(o1),
                                       <<Leaf(a), Tuple(InfixOp(o2), <<Leaf(b), Leaf(c)>>)>>)
      /\ \A a \in operands, b \in operands :
            as_str = NegPow(a, b) =>
              parsed.ok /\ parsed.ans = Tuple("-", <<Tuple("^", <<Leaf(a), Leaf(b)>>)>>)

\* '1 ^ 2 ^ x' has been parsed, to 1^(2^x).
C2_Witness ==
    /\ pphase = "parsed"
    /\ as_str = Chain(<<"1">>, "^", <<"2">>, "^", <<"x">>)
    /\ parsed.ans = Tuple("^", <<Leaf(<<"1">>),
                                 Tuple("^", <<Leaf(<<"2">>), Leaf(<<"x">>)>>)>>)

(***************************************************************************)
(* The trees of the strategy `ast` (test_jit.py): numbers, neg and the     *)
(* binary operators, every ^ node filtered by simple_powers_only.          *)
(***************************************************************************)
simple_powers_only(op, x, y) ==
    IF op # "^" THEN TRUE
    ELSE LET y1 == IF IsTuple(y) /\ y.op = "-" /\ Len(y.args) = 1 /\ ~IsTuple(y.args[1])
                   THEN Leaf(<<"-">> \o y.args[1].v) ELSE y
             f == float(y1.v)
         IN /\ ~IsTuple(y1)
            /\ f.ok
            /\ (f.e >= 0 => Abs(f.m) * Pow10(f.e) < 1000000)
            /\ (f.e >= 0 \/ (Abs(f.m) = 5 /\ f.e = -1))

RECURSIVE ast_strategy(_)
ast_strategy(t) ==
    IF ~IsTuple(t) THEN ~isidentifier(t.v) /\ float(t.v).ok /\ float(t.v).m >= 0
    ELSE /\ \/ t.op \in unary_ops /\ Len(t.args) = 1
            \/ t.op \in binary_ops /\ Len(t.args) = 2
                 /\ simple_powers_only(t.op, t.args[1], t.args[2])
         /\ \A i \in 1..Len(t.args) : ast_strategy(t.args[i])

NoEnv == [v \in {} |-> Int2D(0)]

(***************************************************************************)
(* C3.  For every variable-free tree of the strategy `ast` (every ^        *)
(* exponent an integer literal or 0.5, optionally negated), a ^ node as    *)
(* the base of another ^ node included, the value the compiled function    *)
(* returns equals the reference interpreter's value for the original tree, *)
(* whenever the evaluation divides by zero nowhere.                        *)
(***************************************************************************)
C3_MatchesReference ==
    (/\ mode = "scalar" /\ status = "returned"
     /\ free_vars(in_expr) = {} /\ ast_strategy(in_expr)
     /\ ~divides_by_zero(in_expr, NoEnv))
        => /\ naive_evaluator(in_expr, NoEnv).ok
           /\ NumEq(result, naive_evaluator(in_expr, NoEnv).val)

(***************************************************************************)
(* C4.  The reduction built for a body such as t+x or t*x, called with an  *)
(* initial value and a buffer of n elements, runs the body n times, once   *)
(* per element in index order with the pointer advanced by one element     *)
(* after each, and returns the left fold of the body from the initial      *)
(* value: the initial value itself for n = 0.                              *)
(***************************************************************************)
t_x(acc, x) == [v \in reducer_leaves |-> IF v = <<"t">> THEN acc ELSE x]

RECURSIVE fold(_, _, _)
fold(body, acc, xs) ==
    IF xs = <<>> THEN acc
    ELSE fold(body, naive_evaluator(body, t_x(acc, Head(xs))).val, Tail(xs))

SumsAndProducts ==
    {b \in Bodies : b.op \in {"+", "*"} /\ b.args[1] # b.args[2]}

C4_LeftFold ==
    (mode = "reducer" /\ in_expr \in SumsAndProducts /\ cargs[2] = Int2D(Len(buf)))
        => /\ status # "fault"
           /\ Len(reads) <= Len(buf)
           /\ \A i \in 1..Len(reads) : reads[i] = 8 * (i - 1)
           /\ status = "running" /\ pc > 3 => gpr[2] \in {8 * Len(reads), 8 * (Len(reads) - 1)}
           /\ status = "returned" =>
                /\ Len(reads) = Len(buf)
                /\ gpr[2] = 8 * Len(buf)
                /\ result = fold(in_expr, cargs[1], buf)

\* 4 + 2 + 3 = 9 has been returned for t+x over [2, 3] from 4.
C4_Witness ==
    /\ mode = "reducer" /\ status = "returned"
    /\ in_expr = Tuple("+", <<Leaf(<<"t">>), Leaf(<<"x">>)>>)
    /\ buf = <<Int2D(2), Int2D(3)>>
    /\ cargs = <<Int2D(4), Int2D(2), Int2D(0)>>
    /\ reads = <<0, 8>>
    /\ result = Int2D(9)

(***************************************************************************)
(* C5.  Called with a count that is zero or negative, the reduction runs   *)
(* the body not once, reads no element of the buffer and returns the       *)
(* initial value.                                                          *)
(***************************************************************************)
C5_NonPositiveCount ==
    (mode = "reducer" /\ cargs[2].n <= 0)
        => /\ reads = <<>>
           /\ status # "fault"
           /\ status = "returned" => result = cargs[1]

(***************************************************************************)
(* C6.  Lowering is idempotent: where simplify_expr(t) succeeds,           *)
(* simplify_expr(simplify_expr(t)) is simplify_expr(t); nested unary       *)
(* minus and the minus of a power included.                                *)
(***************************************************************************)
C6_Idempotent ==
    (mode = "scalar" /\ status # "source" /\ lowered.ok)
        => simplify_expr(lowered.ans) = lowered

(***************************************************************************)
(* C7.  On the scalar and on the reduction path, an expression with a ^    *)
(* node whose exponent is neither an integer literal nor 0.5, optionally   *)
(* negated, is rejected when compiled: no function is loaded.              *)
(***************************************************************************)
simple_exponent(e) ==
    LET lit == IF IsTuple(e) /\ e.op = "-" /\ Len(e.args) = 1 THEN e.args[1] ELSE e
    IN ~IsTuple(lit) /\ (isdecimal(lit.v) \/ lit.v = <<"0", ".", "5">>)

RECURSIVE unsupported_exponent(_)
unsupported_exponent(expr) ==
    /\ IsTuple(expr)
    /\ \/ expr.op = "^" /\ Len(expr.args) = 2 /\ ~simple_exponent(expr.args[2])
       \/ \E i \in 1..Len(expr.args) : unsupported_exponent(expr.args[i])

C7_Rejected ==
    (mode \in {"scalar", "reducer"} /\ status # "source" /\ unsupported_exponent(in_expr))
        => (status = "rejected" /\ fn.kind = "none")

(***************************************************************************)
(* C8.  For every base b and exponent n >= 0 the instructions of _POWSD    *)
(* terminate with b^n in reg_x (1 for n = 0), and whenever control is at   *)
(* the loop check, reg_y * reg_x^cnt = b^n.                                *)
(***************************************************************************)
lbl_loop_check == fn.lo + 9

AtLoopCheck == mode = "pow" /\ status = "running" /\ pc = lbl_loop_check

C8_LoopInvariant ==
    AtLoopCheck => mul(xmm[2], ipow(xmm[1], gpr[3])) = ipow(cargs[1], cargs[2].n)

C8_Result ==
    (mode = "pow" /\ status = "returned") => result = ipow(cargs[1], cargs[2].n)

C8_PowBySquaring ==
    /\ [](C8_LoopInvariant /\ C8_Result)
    /\ <>(mode = "pow" => status = "returned")

\* 3^7 = 2187 has been returned.
C8_Witness ==
    /\ mode = "pow" /\ status = "returned"
    /\ cargs = <<Int2D(3), Int2D(7)>>
    /\ result = Int2D(2187)

(***************************************************************************)
(* C9.  Arity: every tuple node of a tree to_ast returns has as many       *)
(* children as its operator's arity, also for strings that end in an       *)
(* operator with a missing operand such as '1^'.                           *)
(***************************************************************************)
RECURSIVE ArityRespected(_)
ArityRespected(t) ==
    IsTuple(t) => /\ Len(t.args) = arity(OPS[t.op])
                  /\ \A i \in 1..Len(t.args) : ArityRespected(t.args[i])

C9_Arity == (pphase = "parsed" /\ parsed.ok) => ArityRespected(parsed.ans)

(***************************************************************************)
(* C10.  No instruction jit_expr emits has an operand of the binding       *)
(* environment as its destination.  So the argument registers of a scalar  *)
(* function keep the arguments, the reducer's accumulator is written only  *)
(* by the store of the body's result after each iteration, and the         *)
(* caller's buffer is never written.                                       *)
(***************************************************************************)
Range(f) == {f[v] : v \in DOMAIN f}

C10_EnvNotWritten ==
    fn.kind \in {"scalar", "reducer"} =>
      /\ \A i \in fn.lo..fn.hi : fn.code[i].a \notin Range(fn.env)
      /\ \A w \in wlog : w.k # "mem"
      /\ fn.kind = "scalar" =>
           /\ \A w \in wlog : (w.k = "xmm" /\ Xmm(w.r) \in Range(fn.env))
                                => fn.code[w.pc].op = "LOAD_ARGUMENT"
           /\ (status \in {"running", "returned"} /\ pc >= fn.lo) =>
                \A i \in 1..Len(cargs) : xmm[i] = cargs[i]
      /\ fn.kind = "reducer" =>
           \A w \in wlog : (w.k = "xmm" /\ w.r = 3) => w.pc \in {3, fn.hi + 1}

\* x*x - x has been computed for x = 4, the argument still in its register.
C10_Witness ==
    /\ mode = "scalar" /\ status = "returned"
    /\ in_expr = Tuple("~", <<Tuple("*", <<Leaf(<<"x">>), Leaf(<<"x">>)>>), Leaf(<<"x">>)>>)
    /\ cargs = <<Int2D(4)>>
    /\ xmm[1] = Int2D(4)
    /\ result = Int2D(12)

(***************************************************************************)
(* C11.  array_reducer binds vars[0] (t) to the accumulator register and   *)
(* vars[1] (x) to the current element of the buffer, whatever order the    *)
(* set of free variables iterates in; so every compile of one body, a      *)
(* non-commutative one such as t - x included, computes the same fold: the *)
(* left fold of the body with t the accumulator and x the element.         *)
(***************************************************************************)
C11_BindsByPosition ==
    (mode = "reducer" /\ fn.kind = "reducer")
        => /\ fn.env[<<"t">>] = Xmm(3)
           /\ fn.env[<<"x">>] = Mem(2)
           /\ (status = "returned" /\ cargs[2] = Int2D(Len(buf)))
                => result = fold(in_expr, cargs[1], buf)

====
